---- MODULE Spec2Model ----
(***************************************************************************)
(* Sales / stock / debtor workflow of the ISTECH sales dashboard.          *)
(*                                                                         *)
(* The shared Supabase store (products, customers, sales, sale_items,      *)
(* debtors) is the global state.  Every browser client keeps the data of   *)
(* its products query, the cart of the "Create New Sale" form              *)
(* (selectedProducts) and at most one mutation in flight.  A mutation is   *)
(* a sequence of store calls; every action below is ONE store call made    *)
(* by one client (its arguments computed from the client's state just      *)
(* before the call, its effect on the store, and the code that runs on     *)
(* the answer up to the next await), so the calls of different clients     *)
(* interleave exactly as the awaits of the code allow.                     *)
(***************************************************************************)
EXTENDS Integers, Sequences, FiniteSets, TLC

\* ------------------------------------------------------------- bounds
MaxSales   == 2     \* createSale mutations started in one behaviour
MaxDeletes == 2     \* deleteSale mutations started in one behaviour
MaxMarks   == 2     \* markPaid mutations started in one behaviour
MaxFaults  == 1     \* store calls that fail in one behaviour
MaxQty     == 2     \* largest quantity typed or clicked into a cart line
InitStock  == 2     \* stock_quantity of every product in the initial state

Clients   == {1, 2}
Products  == {"A", "B"}
Names     == {"", "ann"}          \* customerName field; "" is the empty field
Statuses  == {"paid", "pending", "overdue"}
DueInputs == {"", "T1"}           \* dueDate field; "" is the empty field
PriceInputs == {5}                \* values typed into the selling price field
Forms     == Statuses \X DueInputs

\* products.cost of the two products (even, so that cost * 1.5 is an integer)
ProductCost(p) == IF p = "A" THEN 2 ELSE 4

VARIABLES
    stock,        \* products.stock_quantity, by product
    customers,    \* customers table: sequence of names, id = index
    sales,        \* sales table: set of rows
    items,        \* sale_items table: set of rows
    debtors,      \* debtors table: set of rows
    cache,        \* per client: data of the ["products"] query
    cart,         \* per client: selectedProducts
    op,           \* per client: the mutation in flight
    last,         \* the toast shown by the step just taken
    used,         \* mutations started and store calls failed so far
    config,       \* the scenario: who is online, what is on sale, how much happens
    clock,        \* the reporting pages: new Date() at the time of the query
    db,           \* the reporting pages: the rows the store holds at that time
    page,         \* the reporting pages: dateRange and custom dates of Dashboard and Analysis
    view          \* the reporting pages: what the query or render just run returned

vars == <<stock, customers, sales, items, debtors, cache, cart, op, last, used, config,
          clock, db, page, view>>
reports == <<clock, db, page, view>>
workflow == <<stock, customers, sales, items, debtors, cache, cart, op, last, used, config>>
store == <<stock, customers, sales, items, debtors>>

\* ------------------------------------------------------------- scenarios
\* Each scenario fixes who has the app open, which products are active
\* (is_active), how many mutations of each kind are started, how many store
\* calls fail and which values are typed into the form.
CartScenario ==
    [online |-> {1}, active |-> Products, sales |-> 1, deletes |-> 1, marks |-> 1,
     faults |-> MaxFaults, prices |-> PriceInputs, forms |-> Forms]

SequenceScenario ==
    [online |-> {1}, active |-> {"A"}, sales |-> MaxSales, deletes |-> MaxDeletes, marks |-> 1,
     faults |-> 0, prices |-> {}, forms |-> {<<"paid", "">>, <<"pending", "T1">>}]

RaceScenario ==
    [online |-> Clients, active |-> {"A"}, sales |-> MaxSales, deletes |-> 1, marks |-> 0,
     faults |-> 0, prices |-> {}, forms |-> {<<"paid", "">>}]

UndoScenario ==
    [online |-> Clients, active |-> {"A"}, sales |-> 1, deletes |-> MaxDeletes, marks |-> MaxMarks,
     faults |-> MaxFaults, prices |-> {}, forms |-> {<<"pending", "T1">>}]

Configs == {CartScenario, SequenceScenario, RaceScenario, UndoScenario}

\* ------------------------------------------------------------- helpers
\* all orderings of a finite set as sequences
Perms(S) ==
    {f \in [1..Cardinality(S) -> S] : \A i, j \in 1..Cardinality(S) : i # j => f[i] # f[j]}

Idle ==
    [kind |-> "idle", pc |-> "", name |-> "", status |-> "", due |-> "",
     customerId |-> 0, saleId |-> 0, target |-> 0, its |-> <<>>, i |-> 0, read |-> 0]

NoToast == [client |-> 0, kind |-> "none", result |-> "none", names |-> {}, target |-> 0]

Toast(c, k, r, t) == [client |-> c, kind |-> k, result |-> r, names |-> {}, target |-> t]

\* a point in time: day is the number of days since 2025-01-01, ms the
\* milliseconds since the start of that day (getTime() is day * MsPerDay + ms)
At(d, m) == [day |-> d, ms |-> m]

\* a page as it is mounted: useState("daily") of Dashboard, useState("monthly")
\* of Analysis, useState("") of the custom dates
Mounted(name) ==
    [name |-> name,
     dateRange |-> IF name = "dashboard" THEN "daily"
                   ELSE IF name = "analysis" THEN "monthly" ELSE "",
     customStartDate |-> <<>>, customEndDate |-> <<>>]

NoView == [kind |-> "none"]

\* the sales workflow: no reporting page is open
ReportsClosed ==
    /\ clock = At(1, 0)
    /\ db = [sales |-> <<>>, items |-> <<>>, debtors |-> <<>>, products |-> <<>>]
    /\ page = Mounted("sales")
    /\ view = NoView

Init ==
    /\ config \in Configs
    /\ ReportsClosed
    /\ stock = [p \in Products |-> InitStock]
    /\ customers = <<>>
    /\ sales = {}
    /\ items = {}
    /\ debtors = {}
    /\ cache = [c \in Clients |-> [p \in Products |-> InitStock]]
    /\ cart = [c \in Clients |-> <<>>]
    /\ op = [c \in Clients |-> Idle]
    /\ last = NoToast
    /\ used = [sales |-> 0, deletes |-> 0, marks |-> 0, faults |-> 0]

\* ------------------------------------------------------------- store calls
\* a store call answers, or fails with an error (network, constraint, ...)
Answers == IF used.faults < config.faults THEN {TRUE, FALSE} ELSE {TRUE}

Count(ok) == IF ok THEN used ELSE [used EXCEPT !.faults = @ + 1]

\* the mutation of client c ends: onSuccess / onError show the toast
Finish(c, result) ==
    /\ op' = [op EXCEPT ![c] = Idle]
    /\ last' = Toast(c, op[c].kind, result, op[c].target)

Goto(c, pc) == op' = [op EXCEPT ![c].pc = pc]

\* client c has the app open; a scenario never changes
Open(c) == c \in config.online /\ UNCHANGED <<config, reports>>

\* ------------------------------------------------------------- the form
\* The running createSale reads the array selectedProducts it was started with.
\* addProductToSale on a line that is already in the cart writes the quantity
\* into the line object itself (updated[existingIndex].quantity += 1), which
\* that array holds too, so the mutation sees it.  Every other edit builds new
\* objects, which a running mutation never sees: made while a mutation runs it
\* is the same edit made after the mutation has ended, and is modelled there.
\* An edit of a form that can start no further sale changes nothing.
CanSell == used.sales < config.sales

\* index of the cart line of product p, 0 when absent (findIndex)
FindIndex(lines, p) ==
    IF \E i \in DOMAIN lines : lines[i].id = p
    THEN CHOOSE i \in DOMAIN lines : lines[i].id = p
    ELSE 0

\* selectedProducts.filter(q => q.id !== p)
RECURSIVE FilterOut(_, _)
FilterOut(lines, p) ==
    IF lines = <<>> THEN <<>>
    ELSE IF Head(lines).id = p THEN FilterOut(Tail(lines), p)
    ELSE <<Head(lines)>> \o FilterOut(Tail(lines), p)

\* the ["products"] query (re)fetches the active products
FetchProducts(c) ==
    /\ Open(c)
    /\ CanSell
    /\ cache[c] # stock
    /\ cache' = [cache EXCEPT ![c] = stock]
    /\ last' = NoToast
    /\ UNCHANGED <<store, cart, op, used>>

\* the "New Sale" button: resetForm
NewSale(c) ==
    /\ Open(c)
    /\ op[c].kind = "idle" /\ CanSell
    /\ cart[c] # <<>>
    /\ cart' = [cart EXCEPT ![c] = <<>>]
    /\ last' = NoToast
    /\ UNCHANGED <<store, cache, op, used>>

\* the quantity a new cart line starts with
FirstQuantity == 1

\* { ...product, quantity: 1, sellingPrice: product.cost * 1.5 }
NewLine(c, p) ==
    [id |-> p, stock_quantity |-> cache[c][p], cost |-> ProductCost(p),
     quantity |-> FirstQuantity, sellingPrice |-> (ProductCost(p) * 3) \div 2]

\* updated[existingIndex].quantity += 1
Increment(line) == [line EXCEPT !.quantity = @ + 1]

AddProductToSale(c, p) ==
    /\ Open(c)
    /\ p \in config.active                   \* products.select("*").eq("is_active", true)
    /\ cache[c][p] # 0                       \* the button is disabled at stock 0
    /\ LET k == FindIndex(cart[c], p) IN
       IF k # 0
       THEN /\ op[c].kind = "create" \/ (op[c].kind = "idle" /\ CanSell)
            /\ cart[c][k].quantity < MaxQty
            /\ cart' = [cart EXCEPT ![c][k] = Increment(@)]
       ELSE /\ op[c].kind = "idle" /\ CanSell
            /\ cart' = [cart EXCEPT ![c] = Append(@, NewLine(c, p))]
    /\ last' = NoToast
    /\ UNCHANGED <<store, cache, op, used>>

RemoveProductFromSale(c, p) ==
    /\ Open(c)
    /\ op[c].kind = "idle" /\ CanSell
    /\ FindIndex(cart[c], p) # 0
    /\ cart' = [cart EXCEPT ![c] = FilterOut(@, p)]
    /\ last' = NoToast
    /\ UNCHANGED <<store, cache, op, used>>

\* updateProductQuantity with the test quantity < 0 in place of quantity <= 0:
\* a line whose quantity field is cleared stays in the cart with quantity 0
UpdateProductQuantity_KeepsZero(c, p, q) ==
    /\ Open(c)
    /\ op[c].kind = "idle" /\ CanSell
    /\ FindIndex(cart[c], p) # 0
    /\ IF q < 0
       THEN cart' = [cart EXCEPT ![c] = FilterOut(@, p)]
       ELSE /\ cart[c][FindIndex(cart[c], p)].quantity # q
            /\ cart' = [cart EXCEPT ![c][FindIndex(cart[c], p)].quantity = q]
    /\ last' = NoToast
    /\ UNCHANGED <<store, cache, op, used>>

\* the quantity field; q is parseInt(value) || 0
UpdateProductQuantity(c, p, q) ==
    /\ Open(c)
    /\ op[c].kind = "idle" /\ CanSell
    /\ FindIndex(cart[c], p) # 0
    /\ IF q <= 0
       THEN cart' = [cart EXCEPT ![c] = FilterOut(@, p)]
       ELSE /\ cart[c][FindIndex(cart[c], p)].quantity # q
            /\ cart' = [cart EXCEPT ![c][FindIndex(cart[c], p)].quantity = q]
    /\ last' = NoToast
    /\ UNCHANGED <<store, cache, op, used>>

UpdateSellingPrice(c, p, price) ==
    /\ Open(c)
    /\ op[c].kind = "idle" /\ CanSell
    /\ FindIndex(cart[c], p) # 0
    /\ cart[c][FindIndex(cart[c], p)].sellingPrice # price
    /\ cart' = [cart EXCEPT ![c][FindIndex(cart[c], p)].sellingPrice = price]
    /\ last' = NoToast
    /\ UNCHANGED <<store, cache, op, used>>

\* the lines that take all of the stock read count as issues too
StockIssues_AtLimit(lines) ==
    {lines[i].id : i \in {j \in DOMAIN lines : lines[j].quantity >= lines[j].stock_quantity}}

\* selectedProducts.filter(p => p.quantity > p.stock_quantity), by name
StockIssues(lines) ==
    {lines[i].id : i \in {j \in DOMAIN lines : lines[j].quantity > lines[j].stock_quantity}}

\* handleSubmit, and the first lines of the mutation it starts, which touch no
\* table: supabase.auth.getUser() answers with the user or with none
HandleSubmit(c, name, status, due, user) ==
    /\ Open(c)
    /\ op[c].kind = "idle"                   \* the submit button is disabled while pending
    /\ IF name = "" \/ cart[c] = <<>>
       THEN /\ last' = Toast(c, "create", "validation", 0)
            /\ UNCHANGED <<op, used>>
       ELSE IF StockIssues(cart[c]) # {}
       THEN /\ last' = [Toast(c, "create", "insufficient", 0) EXCEPT !.names = StockIssues(cart[c])]
            /\ UNCHANGED <<op, used>>
       ELSE IF ~user
       THEN /\ last' = Toast(c, "create", "error", 0)      \* "Not authenticated"
            /\ UNCHANGED <<op, used>>
       ELSE /\ CanSell
            /\ used' = [used EXCEPT !.sales = @ + 1]
            /\ op' = [op EXCEPT ![c] =
                    [Idle EXCEPT !.kind = "create", !.pc = "findCustomer", !.name = name,
                                 !.status = status, !.due = due,
                                 !.saleId = used.sales + 1, !.target = used.sales + 1]]
            /\ last' = NoToast
    /\ UNCHANGED <<store, cache, cart>>

\* ------------------------------------------------------------- createSale
\* customers.select("id").eq("name", customerName).single(): the row when exactly
\* one matches, else no data; the error of the call is not looked at
FindCustomer(c, ok) ==
    /\ Open(c)
    /\ op[c].kind = "create" /\ op[c].pc = "findCustomer"
    /\ used' = Count(ok)
    /\ LET match == {k \in DOMAIN customers : customers[k] = op[c].name} IN
       IF ok /\ Cardinality(match) = 1
       THEN op' = [op EXCEPT ![c].customerId = CHOOSE k \in match : TRUE,
                             ![c].pc = "insertSale"]
       ELSE Goto(c, "insertCustomer")
    /\ last' = NoToast
    /\ UNCHANGED <<store, cache, cart>>

InsertCustomer(c, ok) ==
    /\ Open(c)
    /\ op[c].kind = "create" /\ op[c].pc = "insertCustomer"
    /\ used' = Count(ok)
    /\ IF ok
       THEN /\ customers' = Append(customers, op[c].name)
            /\ op' = [op EXCEPT ![c].customerId = Len(customers) + 1,
                                ![c].pc = "insertSale"]
            /\ last' = NoToast
       ELSE /\ Finish(c, "error")
            /\ UNCHANGED customers
    /\ UNCHANGED <<stock, sales, items, debtors, cache, cart>>

\* selectedProducts.reduce((sum, item) => sum + item.sellingPrice * item.quantity, 0)
RECURSIVE TotalAmount(_)
TotalAmount(lines) ==
    IF lines = <<>> THEN 0
    ELSE Head(lines).sellingPrice * Head(lines).quantity + TotalAmount(Tail(lines))

\* selectedProducts.reduce((sum, item) => sum + item.cost * item.quantity, 0)
RECURSIVE TotalCost(_)
TotalCost(lines) ==
    IF lines = <<>> THEN 0
    ELSE Head(lines).cost * Head(lines).quantity + TotalCost(Tail(lines))

\* the sales insert without its due_date: the column keeps its default, null
SaleRow_NoDueDate(o, lines) ==
    [id |-> o.saleId, customer_id |-> o.customerId,
     total_amount |-> TotalAmount(lines), total_cost |-> TotalCost(lines),
     payment_status |-> o.status,
     due_date |-> "null"]

\* the row of the sales insert
SaleRow(o, lines) ==
    [id |-> o.saleId, customer_id |-> o.customerId,
     total_amount |-> TotalAmount(lines), total_cost |-> TotalCost(lines),
     payment_status |-> o.status,
     due_date |-> IF o.due = "" THEN "null" ELSE o.due]

\* the debtor the database derives from a sale recorded as pending
DebtorOf(sale) ==
    IF sale.payment_status = "pending"
    THEN {[id |-> sale.id, sale_id |-> sale.id, customer_id |-> sale.customer_id,
           amount_owed |-> sale.total_amount, due_date |-> sale.due_date,
           is_resolved |-> FALSE]}
    ELSE {}

\* what the mutation still needs once the sale row is written: its id
AfterSale(o) == [Idle EXCEPT !.kind = "create", !.pc = "insertItems",
                             !.saleId = o.saleId, !.target = o.target]

InsertSale(c, ok) ==
    /\ Open(c)
    /\ op[c].kind = "create" /\ op[c].pc = "insertSale"
    /\ used' = Count(ok)
    /\ IF ok
       THEN /\ sales' = sales \cup {SaleRow(op[c], cart[c])}
            /\ debtors' = debtors \cup DebtorOf(SaleRow(op[c], cart[c]))
            /\ op' = [op EXCEPT ![c] = AfterSale(@)]
            /\ last' = NoToast
       ELSE /\ Finish(c, "error")
            /\ UNCHANGED <<sales, debtors>>
    /\ UNCHANGED <<stock, customers, items, cache, cart>>

\* selectedProducts.map(item => ({sale_id, product_id, quantity, unit_price, unit_cost}))
SaleItems(o, lines) ==
    {[sale_id |-> o.saleId, product_id |-> lines[i].id, quantity |-> lines[i].quantity,
      unit_price |-> lines[i].sellingPrice, unit_cost |-> lines[i].cost]
        : i \in DOMAIN lines}

InsertItems(c, ok) ==
    /\ Open(c)
    /\ op[c].kind = "create" /\ op[c].pc = "insertItems"
    /\ used' = Count(ok)
    /\ IF ok
       THEN /\ items' = items \cup SaleItems(op[c], cart[c])
            /\ op' = [op EXCEPT ![c].pc = "updateStock", ![c].i = 1]
            /\ last' = NoToast
       ELSE /\ Finish(c, "error")
            /\ UNCHANGED items
    /\ UNCHANGED <<stock, customers, sales, debtors, cache, cart>>

\* stock_quantity: product.stock_quantity - product.quantity
NewStock(line) == line.stock_quantity - line.quantity

\* one turn of the loop over selectedProducts; after the last one onSuccess
\* closes the dialog and resets the form
UpdateStock(c, ok) ==
    /\ Open(c)
    /\ op[c].kind = "create" /\ op[c].pc = "updateStock"
    /\ used' = Count(ok)
    /\ LET line == cart[c][op[c].i] IN
       IF ~ok
       THEN /\ Finish(c, "error")
            /\ UNCHANGED <<stock, cart>>
       ELSE /\ stock' = [stock EXCEPT ![line.id] = NewStock(line)]
            /\ IF op[c].i < Len(cart[c])
               THEN /\ op' = [op EXCEPT ![c].i = @ + 1]
                    /\ last' = NoToast
                    /\ UNCHANGED cart
               ELSE /\ Finish(c, "success")
                    /\ cart' = [cart EXCEPT ![c] = <<>>]
    /\ UNCHANGED <<customers, sales, items, debtors, cache>>

\* ------------------------------------------------------------- deleteSale
ItemsOf(s) == {it \in items : it.sale_id = s}

\* where the restore loop goes after item i
AfterItem(o) == IF o.i < Len(o.its) THEN [o EXCEPT !.i = @ + 1, !.pc = "delRead", !.read = 0]
                ELSE [o EXCEPT !.pc = "delSale", !.its = <<>>, !.i = 0, !.read = 0]

\* The delete button of a row of the sales table, and the first store call of
\* the mutation: sale_items.select("product_id, quantity").eq("sale_id", saleId);
\* no data on an error, which is not looked at; the rows come in any order.
\* The button is behind the (modal) dialog: the dialog is closed, and opening
\* it again resets the form.
DelItems(c, s, ok, rows) ==
    /\ Open(c)
    /\ op[c].kind = "idle"
    /\ used.deletes < config.deletes
    /\ \E sale \in sales : sale.id = s
    /\ rows \in Perms(ItemsOf(s))
    /\ used' = [Count(ok) EXCEPT !.deletes = @ + 1]
    /\ IF ok /\ rows # <<>>
       THEN op' = [op EXCEPT ![c] = [Idle EXCEPT !.kind = "delete", !.target = s,
                                                 !.its = rows, !.i = 1, !.pc = "delRead"]]
       ELSE op' = [op EXCEPT ![c] = [Idle EXCEPT !.kind = "delete", !.target = s, !.pc = "delSale"]]
    /\ cart' = [cart EXCEPT ![c] = <<>>]
    /\ last' = NoToast
    /\ UNCHANGED <<store, cache>>

\* products.select("stock_quantity").eq("id", item.product_id).single()
DelRead(c, ok) ==
    /\ Open(c)
    /\ op[c].kind = "delete" /\ op[c].pc = "delRead"
    /\ used' = Count(ok)
    /\ IF ok
       THEN op' = [op EXCEPT ![c].read = stock[op[c].its[op[c].i].product_id],
                             ![c].pc = "delWrite"]
       ELSE op' = [op EXCEPT ![c] = AfterItem(@)]          \* if (product) is false
    /\ last' = NoToast
    /\ UNCHANGED <<store, cache, cart>>

\* stock_quantity: product.stock_quantity + item.quantity
Restored(read, item) == read + item.quantity

\* products.update({stock_quantity}).eq("id", item.product_id); its error is
\* not looked at
DelWrite(c, ok) ==
    /\ Open(c)
    /\ op[c].kind = "delete" /\ op[c].pc = "delWrite"
    /\ used' = Count(ok)
    /\ LET item == op[c].its[op[c].i] IN
       IF ok
       THEN stock' = [stock EXCEPT ![item.product_id] = Restored(op[c].read, item)]
       ELSE UNCHANGED stock
    /\ op' = [op EXCEPT ![c] = AfterItem(@)]
    /\ last' = NoToast
    /\ UNCHANGED <<customers, sales, items, debtors, cache, cart>>

\* the rows a delete of sale s removes from sale_items (they go with their sale)
CascadeItems(s) == ItemsOf(s)

\* the rows a delete of sale s removes from debtors (none: debtors stay)
CascadeDebtors(s) == {}

\* sales.delete().eq("id", saleId)
DelSale(c, ok) ==
    /\ Open(c)
    /\ op[c].kind = "delete" /\ op[c].pc = "delSale"
    /\ used' = Count(ok)
    /\ IF ok
       THEN /\ sales' = {sale \in sales : sale.id # op[c].target}
            /\ items' = items \ CascadeItems(op[c].target)
            /\ debtors' = debtors \ CascadeDebtors(op[c].target)
            /\ Finish(c, "success")
       ELSE /\ Finish(c, "error")
            /\ UNCHANGED <<sales, items, debtors>>
    /\ UNCHANGED <<stock, customers, cache, cart>>

\* ------------------------------------------------------------- markPaid
\* the update flips is_resolved instead of setting it
Resolve_Toggle(debtor) == [debtor EXCEPT !.is_resolved = ~@]

\* debtors.update({is_resolved: true, updated_at}).eq("id", debtorId)
Resolve(debtor) == [debtor EXCEPT !.is_resolved = TRUE]

\* The "Mark Paid" button of a row of the debtors table (disabled while
\* markAsPaidMutation.isPending), and the first store call of the mutation.
\* The button is on the Debtors page: the Sales page and its form are unmounted.
MpDebtor(c, d, ok) ==
    /\ Open(c)
    /\ op[c].kind = "idle"
    /\ used.marks < config.marks
    /\ \E debtor \in debtors : debtor.id = d
    /\ used' = [Count(ok) EXCEPT !.marks = @ + 1]
    /\ IF ok
       THEN /\ debtors' = {IF x.id = d THEN Resolve(x) ELSE x : x \in debtors}
            /\ op' = [op EXCEPT ![c] = [Idle EXCEPT !.kind = "markPaid", !.pc = "mpRead", !.target = d]]
            /\ last' = NoToast
       ELSE /\ last' = Toast(c, "markPaid", "error", d)
            /\ UNCHANGED <<debtors, op>>
    /\ cart' = [cart EXCEPT ![c] = <<>>]
    /\ UNCHANGED <<stock, customers, sales, items, cache>>

\* debtors.select("sale_id").eq("id", debtorId).single(); no data on an error,
\* which is not looked at: if (debtor) is false and the mutation succeeds
MpRead(c, ok) ==
    /\ Open(c)
    /\ op[c].kind = "markPaid" /\ op[c].pc = "mpRead"
    /\ used' = Count(ok)
    /\ IF ok /\ \E d \in debtors : d.id = op[c].target
       THEN /\ op' = [op EXCEPT ![c].saleId = (CHOOSE d \in debtors : d.id = op[c].target).sale_id,
                                ![c].pc = "mpSale"]
            /\ last' = NoToast
       ELSE Finish(c, "success")
    /\ UNCHANGED <<store, cache, cart>>

\* the update clears the due date of the sale as well
Pay_ClearsDueDate(sale) == [sale EXCEPT !.payment_status = "paid", !.due_date = "null"]

\* sales.update({payment_status: "paid"}).eq("id", debtor.sale_id)
Pay(sale) == [sale EXCEPT !.payment_status = "paid"]

MpSale(c, ok) ==
    /\ Open(c)
    /\ op[c].kind = "markPaid" /\ op[c].pc = "mpSale"
    /\ used' = Count(ok)
    /\ IF ok
       THEN /\ sales' = {IF s.id = op[c].saleId THEN Pay(s) ELSE s : s \in sales}
            /\ Finish(c, "success")
       ELSE /\ Finish(c, "error")
            /\ UNCHANGED sales
    /\ UNCHANGED <<stock, customers, items, debtors, cache, cart>>

\* ------------------------------------------------------------- specification
Form(c) ==
    \/ FetchProducts(c)
    \/ NewSale(c)
    \/ \E p \in Products : AddProductToSale(c, p)
    \/ \E p \in Products : RemoveProductFromSale(c, p)
    \/ \E p \in Products, q \in 0..MaxQty : UpdateProductQuantity(c, p, q)
    \/ \E p \in Products, price \in config.prices : UpdateSellingPrice(c, p, price)
    \/ \E name \in Names, f \in config.forms, user \in BOOLEAN : HandleSubmit(c, name, f[1], f[2], user)

CreateSale(c) ==
    \/ \E ok \in Answers : FindCustomer(c, ok)
    \/ \E ok \in Answers : InsertCustomer(c, ok)
    \/ \E ok \in Answers : InsertSale(c, ok)
    \/ \E ok \in Answers : InsertItems(c, ok)
    \/ \E ok \in Answers : UpdateStock(c, ok)

DeleteSale(c) ==
    \/ \E s \in 1..MaxSales, ok \in Answers : \E rows \in Perms(ItemsOf(s)) : DelItems(c, s, ok, rows)
    \/ \E ok \in Answers : DelRead(c, ok)
    \/ \E ok \in Answers : DelWrite(c, ok)
    \/ \E ok \in Answers : DelSale(c, ok)

MarkPaid(c) ==
    \/ \E d \in 1..MaxSales, ok \in Answers : MpDebtor(c, d, ok)
    \/ \E ok \in Answers : MpRead(c, ok)
    \/ \E ok \in Answers : MpSale(c, ok)

Next == \E c \in Clients : Form(c) \/ CreateSale(c) \/ DeleteSale(c) \/ MarkPaid(c)

Spec == Init /\ [][Next]_vars

\* ------------------------------------------------------------- time
\* 1000 * 3600 * 24
MsPerDay == 86400000

Before(a, b) == a.day < b.day \/ (a.day = b.day /\ a.ms < b.ms)
NotAfter(a, b) == ~Before(b, a)

\* a.getTime() - b.getTime()
DiffMs(a, b) == (a.day - b.day) * MsPerDay + (a.ms - b.ms)

\* rounding down instead of up
Ceil_Floor(x, d) == x \div d

\* Math.ceil(x / d), d > 0 (-0 is 0)
Ceil(x, d) == -((-x) \div d)

\* the point in time dd days and dms milliseconds after t
Shift(t, dd, dms) ==
    LET m == t.ms + dms IN At(t.day + dd + (m \div MsPerDay), m % MsPerDay)

\* the time at which a page is opened: 2025-02-10 12:00 and 2025-03-01 00:00
Clocks == {At(40, MsPerDay \div 2), At(59, 0)}

\* new Date() in a query: the time of the latest query, or a day later
NewDate == IF clock \in Clocks THEN {clock, Shift(clock, 1, 0)} ELSE {clock}

\* the time at which the page was opened
Opened == IF clock \in Clocks THEN clock ELSE Shift(clock, -1, 0)

\* date-fns
StartOfDay(t) == At(t.day, 0)
EndOfDay(t) == At(t.day, MsPerDay - 1)
SubDays(t, n) == At(t.day - n, t.ms)
IsAfter(a, b) == Before(b, a)

\* a numeric column that holds null
Null == -999999

\* null taken as the number it is stored as
Number_KeepsNull(x) == x

\* Number(x) of a numeric column: null is 0
Number(x) == IF x = Null THEN 0 ELSE x

\* ------------------------------------------------------------- calendar
\* The days -366 .. 364 are the years 2024 (a leap year) and 2025.
YearStart(d) == IF d < 0 THEN -366 ELSE 0
YearEnd(d) == IF d < 0 THEN -1 ELSE 364

\* day of the year (0-based) on which each month starts
MonthStarts(d) ==
    IF d < 0 THEN <<0, 31, 60, 91, 121, 152, 182, 213, 244, 274, 305, 335>>
    ELSE <<0, 31, 59, 90, 120, 151, 181, 212, 243, 273, 304, 334>>

\* getMonth() + 1
MonthOf(d) ==
    LET doy == d - YearStart(d)
    IN  CHOOSE m \in 1..12 :
            /\ MonthStarts(d)[m] <= doy
            /\ m = 12 \/ doy < MonthStarts(d)[m + 1]

StartOfMonth(t) == At(YearStart(t.day) + MonthStarts(t.day)[MonthOf(t.day)], 0)
EndOfMonth(t) ==
    IF MonthOf(t.day) = 12 THEN At(YearEnd(t.day), MsPerDay - 1)
    ELSE At(YearStart(t.day) + MonthStarts(t.day)[MonthOf(t.day) + 1] - 1, MsPerDay - 1)
StartOfYear(t) == At(YearStart(t.day), 0)
EndOfYear(t) == At(YearEnd(t.day), MsPerDay - 1)

\* format(date, "yyyy-MM-dd"), the value of a date field, and new Date() of it
FormatDate(t) == <<t.day>>
ParseDate(d) == At(d[1], 0)

\* format(date, "MMM dd") and format(date, "MMM") / format(date, "MMM yyyy")
FormatDay(t) == [month |-> MonthOf(t.day), dd |-> t.day - StartOfMonth(t).day + 1]
FormatMonth(t) == [month |-> MonthOf(t.day), year |-> IF t.day < 0 THEN 2024 ELSE 2025]

\* ------------------------------------------------------------- debtors page
\* rows.filter(keep) of a query answer
RECURSIVE Unresolved(_)
Unresolved(rows) ==
    IF rows = <<>> THEN <<>>
    ELSE IF ~Head(rows).is_resolved THEN <<Head(rows)>> \o Unresolved(Tail(rows))
    ELSE Unresolved(Tail(rows))

\* every debtor counted as resolved
Resolved_All(rows) == rows

RECURSIVE Resolved(_)
Resolved(rows) ==
    IF rows = <<>> THEN <<>>
    ELSE IF Head(rows).is_resolved THEN <<Head(rows)>> \o Resolved(Tail(rows))
    ELSE Resolved(Tail(rows))

\* counting a debtor due now as overdue
RECURSIVE OverdueRows_DueNow(_, _)
OverdueRows_DueNow(rows, now) ==
    IF rows = <<>> THEN <<>>
    ELSE IF ~Head(rows).is_resolved /\ NotAfter(Head(rows).due_date, now)
         THEN <<Head(rows)>> \o OverdueRows_DueNow(Tail(rows), now)
    ELSE OverdueRows_DueNow(Tail(rows), now)

\* rows.filter(d => !d.is_resolved && isAfter(new Date(), new Date(d.due_date)))
RECURSIVE OverdueRows(_, _)
OverdueRows(rows, now) ==
    IF rows = <<>> THEN <<>>
    ELSE IF ~Head(rows).is_resolved /\ IsAfter(now, Head(rows).due_date)
         THEN <<Head(rows)>> \o OverdueRows(Tail(rows), now)
    ELSE OverdueRows(Tail(rows), now)

\* rows.reduce((sum, d) => sum + Number(d.amount_owed), 0)
RECURSIVE SumOwed(_)
SumOwed(rows) ==
    IF rows = <<>> THEN 0 ELSE Number(Head(rows).amount_owed) + SumOwed(Tail(rows))

\* fetchDebtorStats of lib/debtorStats.ts
LibStats(rows, now) ==
    [kind |-> "debtorStats",
     totalOutstanding |-> SumOwed(Unresolved(rows)),
     overdueDebtors |-> Len(OverdueRows(rows, now)),
     totalResolved |-> SumOwed(Resolved(rows)),
     activeDebtors |-> Len(Unresolved(rows))]

\* exported to the pages that show debtor figures (Dashboard imports it); it
\* reads the whole debtors table
FetchDebtorStats(ok, now) ==
    /\ page.name \in {"dashboard", "debtors"}
    /\ UNCHANGED workflow
    /\ clock' = now
    /\ view' = IF ok THEN LibStats(db.debtors, now)
               ELSE [kind |-> "error", of |-> "debtorStats"]       \* if (error) throw error
    /\ UNCHANGED <<db, page>>

\* the ["debtor-stats"] query of the Debtors page; allDebtors is undefined on
\* an error, which is not looked at
PageStats(rows, now) ==
    [kind |-> "pageStats",
     totalOutstanding |-> SumOwed(Unresolved(rows)),
     overdueDebtors |-> Len(OverdueRows(rows, now)),
     totalResolved |-> SumOwed(Resolved(rows)),
     activeDebtors |-> Len(Unresolved(rows))]

DebtorStatsQuery(ok, now) ==
    /\ page.name = "debtors"
    /\ UNCHANGED workflow
    /\ clock' = now
    /\ view' = IF ok THEN PageStats(db.debtors, now) ELSE PageStats(<<>>, now)
    /\ UNCHANGED <<db, page>>

\* Math.ceil((due.getTime() - now.getTime()) / (1000 * 3600 * 24))
DaysUntilDue(due, now) == Ceil(DiffMs(due, now), MsPerDay)

\* getStatusColor / getStatusIcon
GetStatusColor(due, now) ==
    IF DaysUntilDue(due, now) < 0 THEN "red"            \* Overdue
    ELSE IF DaysUntilDue(due, now) <= 7 THEN "yellow"   \* Due soon
    ELSE "green"                                        \* Not due yet

GetStatusIcon(due, now) ==
    IF DaysUntilDue(due, now) < 0 THEN "AlertTriangle"
    ELSE IF DaysUntilDue(due, now) <= 7 THEN "Clock"
    ELSE "CheckCircle"

\* the text next to the icon
DueLabel(days) ==
    IF days < 0 THEN [text |-> "days overdue", days |-> -days]
    ELSE IF days = 0 THEN [text |-> "Due today", days |-> 0]
    ELSE [text |-> "days left", days |-> days]

\* .order("due_date", { ascending: true }): insert row into a sorted answer
RECURSIVE InsertByDue(_, _)
InsertByDue(row, sorted) ==
    IF sorted = <<>> THEN <<row>>
    ELSE IF Before(row.due_date, Head(sorted).due_date) THEN <<row>> \o sorted
    ELSE <<Head(sorted)>> \o InsertByDue(row, Tail(sorted))

RECURSIVE OrderByDue(_)
OrderByDue(rows) ==
    IF rows = <<>> THEN <<>>
    ELSE InsertByDue(rows[Len(rows)], OrderByDue(SubSeq(rows, 1, Len(rows) - 1)))

\* debtor.sales: the sale row joined to the debtor, none when the sale is gone
JoinedSale(d) ==
    IF \E i \in DOMAIN db.sales : db.sales[i].id = d.sale_id
    THEN <<db.sales[CHOOSE i \in DOMAIN db.sales : db.sales[i].id = d.sale_id]>>
    ELSE <<>>

\* Number(debtor.sales?.total_amount || 0) - Number(debtor.sales?.total_cost || 0)
PotentialProfit(sale) ==
    IF sale = <<>> THEN 0 ELSE Number(sale[1].total_amount) - Number(sale[1].total_cost)

\* one row of the debtors table
DebtorRow(d, now) ==
    [id |-> d.id,
     amount |-> Number(d.amount_owed),
     potentialProfit |-> PotentialProfit(JoinedSale(d)),
     daysUntilDue |-> DaysUntilDue(d.due_date, now),
     color |-> GetStatusColor(d.due_date, now),
     icon |-> GetStatusIcon(d.due_date, now),
     label |-> DueLabel(DaysUntilDue(d.due_date, now))]

\* the ["debtors"] query and the render of its rows
RenderDebtors(ok, now) ==
    /\ page.name = "debtors"
    /\ UNCHANGED workflow
    /\ clock' = now
    /\ view' = IF ok
               THEN [kind |-> "debtors",
                     rows |-> [i \in DOMAIN OrderByDue(Unresolved(db.debtors)) |->
                                  DebtorRow(OrderByDue(Unresolved(db.debtors))[i], now)]]
               ELSE [kind |-> "error", of |-> "debtors"]          \* if (error) throw error
    /\ UNCHANGED <<db, page>>

\* sales.update({payment_status: "paid"}).eq("id", debtor.sale_id)
PaidRows(rows, s) == [k \in DOMAIN rows |-> IF rows[k].id = s THEN Pay(rows[k]) ELSE rows[k]]

\* The "Mark Paid" button of row i of the debtors table: markAsPaidMutation with
\* its three store calls in turn, of which the first `answered` are answered
\* and the next one fails (the failure of the second, the read of sale_id, is
\* not looked at), then onSuccess, which invalidates ["debtor-stats"], and the
\* refetch of the statistics of the page, or onError.
MarkAsPaidMutation(i, answered, ok, now) ==
    /\ page.name = "debtors"
    /\ i \in DOMAIN db.debtors
    /\ ~db.debtors[i].is_resolved
    /\ UNCHANGED workflow
    /\ clock' = now
    /\ db' = [db EXCEPT
                !.debtors = IF answered >= 1 THEN [@ EXCEPT ![i] = Resolve(@)] ELSE @,
                !.sales = IF answered = 3 THEN PaidRows(@, db.debtors[i].sale_id) ELSE @]
    /\ view' = IF answered \in {1, 3}
               THEN IF ok THEN PageStats(db'.debtors, now) ELSE PageStats(<<>>, now)
               ELSE [kind |-> "error", of |-> "markAsPaid"]
    /\ UNCHANGED page

\* ------------------------------------------------------------- page state
DashboardRanges == {"daily", "weekly", "monthly", "yearly", "custom"}
AnalysisRanges == {"daily", "monthly", "yearly", "custom"}

\* the values typed into the custom date fields: "" or the day the page was
\* opened or the day before
CustomDates == {<<>>} \cup {FormatDate(SubDays(Opened, n)) : n \in {0, 1}}

\* the date range buttons; "Custom Range" is disabled until both dates are set
SetDateRange(r) ==
    /\ \/ page.name = "dashboard" /\ r \in DashboardRanges
       \/ page.name = "analysis" /\ r \in AnalysisRanges
    /\ r = "custom" => page.customStartDate # <<>> /\ page.customEndDate # <<>>
    /\ page.dateRange # r
    /\ UNCHANGED workflow
    /\ page' = [page EXCEPT !.dateRange = r]
    /\ view' = NoView
    /\ UNCHANGED <<clock, db>>

SetCustomStartDate(d) ==
    /\ page.name \in {"dashboard", "analysis"}
    /\ page.customStartDate # d
    /\ UNCHANGED workflow
    /\ page' = [page EXCEPT !.customStartDate = d]
    /\ view' = NoView
    /\ UNCHANGED <<clock, db>>

SetCustomEndDate(d) ==
    /\ page.name \in {"dashboard", "analysis"}
    /\ page.customEndDate # d
    /\ UNCHANGED workflow
    /\ page' = [page EXCEPT !.customEndDate = d]
    /\ view' = NoView
    /\ UNCHANGED <<clock, db>>

\* ------------------------------------------------------------- dashboard
\* getDateRange of Dashboard
DashboardRange(pg, today) ==
    CASE pg.dateRange = "daily" -> [start |-> StartOfDay(today), end |-> EndOfDay(today)]
      [] pg.dateRange = "monthly" -> [start |-> StartOfMonth(today), end |-> EndOfMonth(today)]
      [] pg.dateRange = "yearly" -> [start |-> StartOfYear(today), end |-> EndOfYear(today)]
      [] pg.dateRange = "custom" ->
            IF pg.customStartDate # <<>> /\ pg.customEndDate # <<>>
            THEN [start |-> StartOfDay(ParseDate(pg.customStartDate)),
                  end |-> EndOfDay(ParseDate(pg.customEndDate))]
            ELSE [start |-> StartOfDay(today), end |-> EndOfDay(today)]
      [] OTHER -> [start |-> SubDays(today, 7), end |-> today]

\* the window without its last instant
RECURSIVE SalesBetween_OpenEnd(_, _, _)
SalesBetween_OpenEnd(rows, start, end) ==
    IF rows = <<>> THEN <<>>
    ELSE IF NotAfter(start, Head(rows).sale_date) /\ Before(Head(rows).sale_date, end)
         THEN <<Head(rows)>> \o SalesBetween_OpenEnd(Tail(rows), start, end)
    ELSE SalesBetween_OpenEnd(Tail(rows), start, end)

\* .gte("sale_date", start).lte("sale_date", end) on the sales table
RECURSIVE SalesBetween(_, _, _)
SalesBetween(rows, start, end) ==
    IF rows = <<>> THEN <<>>
    ELSE IF NotAfter(start, Head(rows).sale_date) /\ NotAfter(Head(rows).sale_date, end)
         THEN <<Head(rows)>> \o SalesBetween(Tail(rows), start, end)
    ELSE SalesBetween(Tail(rows), start, end)

\* .gte("sale_date", dayStart).lt("sale_date", dayEnd) on the sales table
RECURSIVE SalesFromUntil(_, _, _)
SalesFromUntil(rows, start, end) ==
    IF rows = <<>> THEN <<>>
    ELSE IF NotAfter(start, Head(rows).sale_date) /\ Before(Head(rows).sale_date, end)
         THEN <<Head(rows)>> \o SalesFromUntil(Tail(rows), start, end)
    ELSE SalesFromUntil(Tail(rows), start, end)

\* rows.reduce((sum, sale) => sum + Number(sale.total_amount), 0)
RECURSIVE SumAmount(_)
SumAmount(rows) ==
    IF rows = <<>> THEN 0 ELSE Number(Head(rows).total_amount) + SumAmount(Tail(rows))

\* rows.reduce((sum, sale) => sum + Number(sale.total_cost), 0)
RECURSIVE SumCost(_)
SumCost(rows) ==
    IF rows = <<>> THEN 0 ELSE Number(Head(rows).total_cost) + SumCost(Tail(rows))

\* rows.reduce((sum, item) => sum + item.quantity, 0); null + n is n
RECURSIVE SumQuantity(_)
SumQuantity(rows) ==
    IF rows = <<>> THEN 0 ELSE Number(Head(rows).quantity) + SumQuantity(Tail(rows))

\* sale.sale_items: the sale_items rows nested in a sales row
RECURSIVE ItemsOfSale(_, _)
ItemsOfSale(rows, s) ==
    IF rows = <<>> THEN <<>>
    ELSE IF Head(rows).sale_id = s THEN <<Head(rows)>> \o ItemsOfSale(Tail(rows), s)
    ELSE ItemsOfSale(Tail(rows), s)

\* salesData.reduce((sum, sale) => sum + (sale.sale_items.reduce(...) || 0), 0)
RECURSIVE ProductsSold(_)
ProductsSold(rows) ==
    IF rows = <<>> THEN 0
    ELSE SumQuantity(ItemsOfSale(db.items, Head(rows).id)) + ProductsSold(Tail(rows))

\* products.select(...).eq("is_active", true)
RECURSIVE ActiveProducts(_)
ActiveProducts(rows) ==
    IF rows = <<>> THEN <<>>
    ELSE IF Head(rows).is_active THEN <<Head(rows)>> \o ActiveProducts(Tail(rows))
    ELSE ActiveProducts(Tail(rows))

\* products.reduce((sum, product) => sum + (Number(product.cost) * product.stock_quantity), 0)
RECURSIVE InventoryValue(_)
InventoryValue(rows) ==
    IF rows = <<>> THEN 0
    ELSE Number(Head(rows).cost) * Number(Head(rows).stock_quantity) + InventoryValue(Tail(rows))

\* the ["dashboard-stats"] query, on the rows its reads answer
DashboardStatsOf(salesData) ==
    [kind |-> "dashboardStats",
     productsCount |-> Len(ActiveProducts(db.products)),
     totalInventoryValue |-> InventoryValue(ActiveProducts(db.products)),
     totalRevenue |-> SumAmount(salesData),
     totalCost |-> SumCost(salesData),
     totalProfit |-> SumAmount(salesData) - SumCost(salesData),
     productsSold |-> ProductsSold(salesData),
     debtorsCount |-> Len(Unresolved(db.debtors)),
     salesData |-> salesData,
     salesCount |-> Len(salesData)]

DashboardStats(now) ==
    /\ page.name = "dashboard"
    /\ UNCHANGED workflow
    /\ clock' = now
    /\ view' = DashboardStatsOf(SalesBetween(db.sales, DashboardRange(page, now).start,
                                             DashboardRange(page, now).end))
    /\ UNCHANGED <<db, page>>

\* number of entries of a trend, and the days between two of them
TrendDays(dateRange) ==
    IF dateRange = "yearly" THEN 12 ELSE IF dateRange = "monthly" THEN 30 ELSE 7
TrendStep(dateRange) == IF dateRange = "yearly" THEN 30 ELSE 1

\* one entry of the ["chart-data"] query: the day i steps before today
ChartDay(dateRange, now, i) ==
    LET date == SubDays(now, i * TrendStep(dateRange))
        dayStart == StartOfDay(ParseDate(FormatDate(date)))
        dayEnd == EndOfDay(ParseDate(FormatDate(date)))
        dayStats == SalesFromUntil(db.sales, dayStart, dayEnd)
    IN  [date |-> IF dateRange = "yearly" THEN FormatMonth(date) ELSE FormatDay(date),
         sales |-> SumAmount(dayStats),
         expenses |-> SumCost(dayStats),
         profit |-> SumAmount(dayStats) - SumCost(dayStats)]

ChartData(now) ==
    /\ page.name = "dashboard"
    /\ UNCHANGED workflow
    /\ clock' = now
    /\ view' = [kind |-> "chartData",
                days |-> [k \in 1..TrendDays(page.dateRange) |->
                             ChartDay(page.dateRange, now, TrendDays(page.dateRange) - k)]]
    /\ UNCHANGED <<db, page>>

\* ------------------------------------------------------------- analysis
\* getDateRange of Analysis
AnalysisRange(pg, today) ==
    CASE pg.dateRange = "daily" -> [start |-> StartOfDay(today), end |-> EndOfDay(today)]
      [] pg.dateRange = "yearly" -> [start |-> StartOfYear(today), end |-> EndOfYear(today)]
      [] pg.dateRange = "custom" /\ pg.customStartDate # <<>> /\ pg.customEndDate # <<>> ->
            [start |-> StartOfDay(ParseDate(pg.customStartDate)),
             end |-> EndOfDay(ParseDate(pg.customEndDate))]
      [] OTHER -> [start |-> StartOfMonth(today), end |-> EndOfMonth(today)]

\* sale_items with sales!inner(sale_date), .gte / .lte on sales.sale_date
RECURSIVE ItemsBetween(_, _, _)
ItemsBetween(rows, start, end) ==
    IF rows = <<>> THEN <<>>
    ELSE IF \E i \in DOMAIN db.sales :
                /\ db.sales[i].id = Head(rows).sale_id
                /\ NotAfter(start, db.sales[i].sale_date)
                /\ NotAfter(db.sales[i].sale_date, end)
         THEN <<Head(rows)>> \o ItemsBetween(Tail(rows), start, end)
    ELSE ItemsBetween(Tail(rows), start, end)

\* item.products?.category || 'Uncategorized' and item.products?.name || 'Unknown'
CategoryOf(item) == IF item.category = "null" THEN "Uncategorized" ELSE item.category
ProductNameOf(item) == IF item.name = "null" THEN "Unknown" ELSE item.name

\* what one item adds to its group
ItemRevenue(item) == Number(item.quantity) * Number(item.unit_price)
ItemCosts(item) == Number(item.quantity) * Number(item.unit_cost)

\* the item replaces its group instead of adding to it
AddToGroup_Replace(map, key, item) ==
    IF \E i \in DOMAIN map : map[i].name = key
    THEN [i \in DOMAIN map |->
             IF map[i].name = key
             THEN [name |-> key,
                   revenue |-> ItemRevenue(item),
                   cost |-> ItemCosts(item),
                   profit |-> ItemRevenue(item) - ItemCosts(item),
                   quantity |-> Number(item.quantity)]
             ELSE map[i]]
    ELSE Append(map, [name |-> key,
                      revenue |-> ItemRevenue(item),
                      cost |-> ItemCosts(item),
                      profit |-> ItemRevenue(item) - ItemCosts(item),
                      quantity |-> Number(item.quantity)])

\* map.set(key, { ...current + item }) on a Map kept in insertion order
AddToGroup(map, key, item) ==
    IF \E i \in DOMAIN map : map[i].name = key
    THEN [i \in DOMAIN map |->
             IF map[i].name = key
             THEN [name |-> key,
                   revenue |-> map[i].revenue + ItemRevenue(item),
                   cost |-> map[i].cost + ItemCosts(item),
                   profit |-> map[i].profit + (ItemRevenue(item) - ItemCosts(item)),
                   quantity |-> map[i].quantity + Number(item.quantity)]
             ELSE map[i]]
    ELSE Append(map, [name |-> key,
                      revenue |-> ItemRevenue(item),
                      cost |-> ItemCosts(item),
                      profit |-> ItemRevenue(item) - ItemCosts(item),
                      quantity |-> Number(item.quantity)])

\* productPerformance.forEach(item => categoryMap.set(...)), entries in order
RECURSIVE CategoryMap(_)
CategoryMap(rows) ==
    IF rows = <<>> THEN <<>>
    ELSE AddToGroup(CategoryMap(SubSeq(rows, 1, Len(rows) - 1)),
                    CategoryOf(rows[Len(rows)]), rows[Len(rows)])

\* productPerformance.forEach(item => productMap.set(...)), entries in order
RECURSIVE ProductMap(_)
ProductMap(rows) ==
    IF rows = <<>> THEN <<>>
    ELSE AddToGroup(ProductMap(SubSeq(rows, 1, Len(rows) - 1)),
                    ProductNameOf(rows[Len(rows)]), rows[Len(rows)])

\* the smallest profit first
RECURSIVE InsertByProfit_Ascending(_, _)
InsertByProfit_Ascending(e, sorted) ==
    IF sorted = <<>> THEN <<e>>
    ELSE IF Head(sorted).profit > e.profit THEN <<e>> \o sorted
    ELSE <<Head(sorted)>> \o InsertByProfit_Ascending(e, Tail(sorted))

\* .sort((a, b) => b.profit - a.profit): insert e into a sorted list, after
\* the entries that are not smaller (the sort is stable)
RECURSIVE InsertByProfit(_, _)
InsertByProfit(e, sorted) ==
    IF sorted = <<>> THEN <<e>>
    ELSE IF Head(sorted).profit < e.profit THEN <<e>> \o sorted
    ELSE <<Head(sorted)>> \o InsertByProfit(e, Tail(sorted))

RECURSIVE SortByProfit(_)
SortByProfit(list) ==
    IF list = <<>> THEN <<>>
    ELSE InsertByProfit(list[Len(list)], SortByProfit(SubSeq(list, 1, Len(list) - 1)))

\* .slice(0, 10)
TopN == 10
Slice(list, n) == SubSeq(list, 1, IF Len(list) < n THEN Len(list) ELSE n)

TopProducts(productMap) == Slice(SortByProfit(productMap), TopN)

\* salesData.filter(sale => saleDate >= dayStart && saleDate <= dayEnd)
RECURSIVE DaySales(_, _, _)
DaySales(salesData, dayStart, dayEnd) ==
    IF salesData = <<>> THEN <<>>
    ELSE IF NotAfter(dayStart, Head(salesData).sale_date)
            /\ NotAfter(Head(salesData).sale_date, dayEnd)
         THEN <<Head(salesData)>> \o DaySales(Tail(salesData), dayStart, dayEnd)
    ELSE DaySales(Tail(salesData), dayStart, dayEnd)

\* one turn of the timeTrend loop
TrendEntry(dateRange, now, i, salesData) ==
    LET date == SubDays(now, i * TrendStep(dateRange))
        daySales == DaySales(salesData, StartOfDay(date), EndOfDay(date))
    IN  [date |-> IF dateRange = "yearly" THEN [month |-> MonthOf(date.day)]
                  ELSE FormatDay(date),
         revenue |-> SumAmount(daySales),
         cost |-> SumCost(daySales),
         profit |-> SumAmount(daySales) - SumCost(daySales)]

\* for (let i = trendDays - 1; i >= 0; i--) timeTrend.push(...)
TimeTrend(dateRange, now, salesData) ==
    [k \in 1..TrendDays(dateRange) |->
        TrendEntry(dateRange, now, TrendDays(dateRange) - k, salesData)]

\* the ["analytics"] query, on the rows its reads answer
AnalyticsOf(salesData, productPerformance, dateRange, now) ==
    [kind |-> "analytics",
     totalRevenue |-> SumAmount(salesData),
     totalCost |-> SumCost(salesData),
     totalProfit |-> SumAmount(salesData) - SumCost(salesData),
     categoryData |-> CategoryMap(productPerformance),
     topProducts |-> TopProducts(ProductMap(productPerformance)),
     timeTrend |-> TimeTrend(dateRange, now, salesData),
     salesCount |-> Len(salesData),
     \* salesData.length ? totalRevenue / salesData.length : 0, as a fraction
     avgOrderValue |-> IF Len(salesData) # 0
                       THEN [num |-> SumAmount(salesData), den |-> Len(salesData)]
                       ELSE [num |-> 0, den |-> 1],
     totalQuantitySold |-> SumQuantity(productPerformance)]

AnalyticsData(now) ==
    /\ page.name = "analysis"
    /\ UNCHANGED workflow
    /\ clock' = now
    /\ LET range == AnalysisRange(page, now) IN
       view' = AnalyticsOf(SalesBetween(db.sales, range.start, range.end),
                           ItemsBetween(db.items, range.start, range.end),
                           page.dateRange, now)
    /\ UNCHANGED <<db, page>>

\* ------------------------------------------------------------- reporting data
MaxDebtorRows == 2     \* debtors rows in the store
MaxSaleRows   == 2     \* sales rows in the store
MaxItemRows   == 3     \* sale_items rows in the store
MaxProducts   == 12    \* distinct products sold (more than the top list holds)

\* the lists of at most n rows: any row last, rows of lead before it
RECURSIVE Lists(_, _, _)
Lists(rows, lead, n) ==
    IF n = 0 THEN {<<>>}
    ELSE Lists(rows, lead, n - 1)
         \cup {Append(l, r) : l \in {x \in Lists(lead, lead, n - 1) : Len(x) = n - 1}, r \in rows}

\* rows get their position as id
Numbered(list) == [i \in DOMAIN list |-> [list[i] EXCEPT !.id = i]]

\* due dates around now: now, a millisecond and a day either side, and the
\* seven-day limit of "due soon"
DueDates(now) ==
    {Shift(now, o[1], o[2]) :
        o \in {<<0, 0>>, <<0, -1>>, <<0, 1>>, <<-1, 0>>, <<-1, -1>>, <<1, 0>>, <<1, 1>>,
               <<7, 0>>, <<7, 1>>}}

DebtorRows(now) ==
    {[id |-> 0, sale_id |-> s, amount_owed |-> a, is_resolved |-> r, due_date |-> d] :
        s \in {1}, a \in {3, Null}, r \in BOOLEAN, d \in DueDates(now)}

\* sale dates around now: now, the ends of today, of the month, of the week
SaleDates(now) ==
    {now, StartOfDay(now), EndOfDay(now), SubDays(now, 1), SubDays(now, 7),
     Shift(SubDays(now, 7), 0, -1), Shift(StartOfMonth(now), 0, -1), SubDays(now, 30)}

SaleRows(now) ==
    {[id |-> 0, sale_date |-> d, total_amount |-> k[1], total_cost |-> k[2],
      payment_status |-> k[3]] :
        d \in SaleDates(now),
        k \in {<<5, 2, "paid">>, <<7, 3, "pending">>, <<Null, 2, "paid">>}}

\* the active and inactive products of the store
ProductRows ==
    <<[cost |-> 2, stock_quantity |-> 2, is_active |-> TRUE],
      [cost |-> Null, stock_quantity |-> 1, is_active |-> TRUE],
      [cost |-> 4, stock_quantity |-> 5, is_active |-> FALSE]>>

\* a debtors page: the debtors of one pending sale
DebtorStores(now) ==
    {[sales |-> <<[id |-> 1, sale_date |-> SubDays(now, 1), total_amount |-> 7,
                   total_cost |-> 3, payment_status |-> "pending"]>>,
      items |-> <<>>, debtors |-> Numbered(l), products |-> ProductRows] :
        l \in Lists(DebtorRows(now), {r \in DebtorRows(now) : r.due_date = now}, MaxDebtorRows)}

\* the item and the debtor the database holds for a sale
ItemFor(sale) ==
    [sale_id |-> sale.id, quantity |-> 2, unit_price |-> 3, unit_cost |-> 1,
     name |-> "A", category |-> "x"]
DebtorFor(sale) ==
    [id |-> sale.id, sale_id |-> sale.id, amount_owed |-> sale.total_amount,
     is_resolved |-> sale.payment_status = "paid", due_date |-> Shift(sale.sale_date, 7, 0)]

\* sales of different dates, paid and pending
SaleStores(now) ==
    {[sales |-> Numbered(l),
      items |-> [i \in DOMAIN l |-> ItemFor(Numbered(l)[i])],
      debtors |-> [i \in DOMAIN l |-> DebtorFor(Numbered(l)[i])],
      products |-> ProductRows] :
        l \in Lists(SaleRows(now),
                    {r \in SaleRows(now) : /\ r.payment_status = "paid"
                                            /\ r.total_amount # Null
                                            /\ r.sale_date \in {now, SubDays(now, 1)}},
                    MaxSaleRows)}

\* sale_items of a sale of today and of a sale of 40 days ago; products A and B
\* of category x, C of category y, D without category, and a product that is gone
ItemRows ==
    {[sale_id |-> s, quantity |-> n[1], unit_price |-> n[2], unit_cost |-> n[3],
      name |-> pr[1], category |-> pr[2]] :
        s \in {1, 2},
        n \in {<<1, 3, 2>>, <<2, 5, 5>>, <<1, Null, 2>>},
        pr \in {<<"A", "x">>, <<"B", "x">>, <<"C", "y">>, <<"D", "null">>, <<"null", "null">>}}

ItemStores(now) ==
    {[sales |-> <<[id |-> 1, sale_date |-> now, total_amount |-> 5, total_cost |-> 2,
                   payment_status |-> "paid"],
                  [id |-> 2, sale_date |-> SubDays(now, 40), total_amount |-> 7,
                   total_cost |-> 3, payment_status |-> "paid"]>>,
      items |-> l, debtors |-> <<>>, products |-> ProductRows] :
        l \in Lists(ItemRows,
                    {r \in ItemRows : r.sale_id = 1 /\ r.unit_price = 3 /\ r.name \in {"A", "B"}},
                    MaxItemRows)}

\* many products, one item each, sold today; the profits rise, fall, are all
\* equal or alternate
ProductNames ==
    <<"P01", "P02", "P03", "P04", "P05", "P06", "P07", "P08", "P09", "P10",
      "P11", "P12", "P13", "P14", "P15", "P16">>

ProfitOf(shape, k) ==
    CASE shape = "rising" -> k
      [] shape = "falling" -> 20 - k
      [] shape = "equal" -> 4
      [] OTHER -> IF k % 2 = 0 THEN k ELSE 20 - k

ManyProductStores(now) ==
    {[sales |-> <<[id |-> 1, sale_date |-> now, total_amount |-> 5, total_cost |-> 2,
                   payment_status |-> "paid"]>>,
      items |-> [k \in 1..n |->
                    [sale_id |-> 1, quantity |-> 1, unit_price |-> 1 + ProfitOf(shape, k),
                     unit_cost |-> 1, name |-> ProductNames[k], category |-> "x"]],
      debtors |-> <<>>, products |-> ProductRows] :
        n \in (MaxProducts - 3)..MaxProducts,
        shape \in {"rising", "falling", "equal", "alternating"}}

\* the reporting pages: one page is mounted, over a store that holds rows
ReportInit ==
    /\ config = CartScenario
    /\ stock = [p \in Products |-> InitStock]
    /\ customers = <<>>
    /\ sales = {}
    /\ items = {}
    /\ debtors = {}
    /\ cache = [c \in Clients |-> [p \in Products |-> InitStock]]
    /\ cart = [c \in Clients |-> <<>>]
    /\ op = [c \in Clients |-> Idle]
    /\ last = NoToast
    /\ used = [sales |-> 0, deletes |-> 0, marks |-> 0, faults |-> 0]
    /\ clock \in Clocks
    /\ view = NoView
    /\ \/ page = Mounted("debtors") /\ db \in DebtorStores(clock)
       \/ page = Mounted("dashboard") /\ db \in SaleStores(clock)
       \/ page = Mounted("analysis")
            /\ db \in SaleStores(clock) \cup ItemStores(clock) \cup ManyProductStores(clock)

ReportNext ==
    \/ \E r \in DashboardRanges : SetDateRange(r)
    \/ \E d \in CustomDates : SetCustomStartDate(d)
    \/ \E d \in CustomDates : SetCustomEndDate(d)
    \/ \E ok \in BOOLEAN, now \in NewDate : RenderDebtors(ok, now)
    \/ \E ok \in BOOLEAN, now \in NewDate : DebtorStatsQuery(ok, now)
    \/ \E ok \in BOOLEAN, now \in NewDate : FetchDebtorStats(ok, now)
    \/ \E i \in 1..MaxDebtorRows, answered \in 0..3, ok \in BOOLEAN, now \in NewDate :
           MarkAsPaidMutation(i, answered, ok, now)
    \/ \E now \in NewDate : DashboardStats(now)
    \/ \E now \in NewDate : ChartData(now)
    \/ \E now \in NewDate : AnalyticsData(now)

ReportSpec == ReportInit /\ [][ReportNext]_vars

\* ------------------------------------------------------------- properties
\* sum of unit_price * quantity over a set of sale_items rows
RECURSIVE ItemsAmount(_)
ItemsAmount(its) ==
    IF its = {} THEN 0
    ELSE LET it == CHOOSE x \in its : TRUE
         IN  it.unit_price * it.quantity + ItemsAmount(its \ {it})

\* sum of unit_cost * quantity over a set of sale_items rows
RECURSIVE ItemsCost(_)
ItemsCost(its) ==
    IF its = {} THEN 0
    ELSE LET it == CHOOSE x \in its : TRUE
         IN  it.unit_cost * it.quantity + ItemsCost(its \ {it})

\* the step taken is the one in which the restore loop of client c leaves an item
LeavesItem(c) ==
    /\ op[c].kind = "delete" /\ op[c].pc \in {"delRead", "delWrite"}
    /\ op'[c] = AfterItem(op[c])

\* the step taken is a submit of the form of client c that ends in the stock
\* check of handleSubmit or starts the mutation
Submits(c) ==
    /\ op[c].kind = "idle"
    /\ \/ op'[c].kind = "create"
       \/ last'.client = c /\ last'.kind = "create" /\ last'.result = "insufficient"

\* the step taken is a createSale of client c turned down before its first write
Rejects(c) ==
    /\ op[c].kind = "idle" /\ op'[c].kind = "idle"
    /\ last'.client = c /\ last'.kind = "create"
    /\ last'.result \in {"validation", "insufficient", "error"}

\* C1: in every state in which a markPaid(d) has just finished, with success or
\* with an error, debtor d is resolved if and only if the sale it references is
\* paid: the two writes take effect both or neither.
C1_BothOrNeither ==
    last.kind = "markPaid" =>
        \A d \in debtors : d.id = last.target =>
            \A s \in sales : s.id = d.sale_id =>
                (d.is_resolved <=> s.payment_status = "paid")

\* C2: every stock write of a successful createSale leaves the product's stock
\* at its stock just before minus the quantity sold, a createSale is started
\* only when no line asks for more than the product's stock, and deleteSale
\* leaves every item with the product's stock at its stock just before plus the
\* quantity of the item.
C2_StockArithmetic ==
    [][\A c \in Clients :
        /\ (op[c].kind = "idle" /\ op'[c].kind = "create") =>
               \A i \in DOMAIN cart[c] : cart[c][i].quantity <= stock[cart[c][i].id]
        /\ (op[c].kind = "create" /\ op[c].pc = "updateStock" /\ op'[c] # op[c]
                /\ last'.result # "error") =>
               LET p == cart[c][op[c].i].id IN
               \A it \in items : (it.sale_id = op[c].saleId /\ it.product_id = p) =>
                   stock'[p] = stock[p] - it.quantity
        /\ LeavesItem(c) =>
               LET it == op[c].its[op[c].i] IN
               stock'[it.product_id] = stock[it.product_id] + it.quantity
      ]_vars

\* C3: no product's stock_quantity is negative in any reachable state, whatever
\* the clients do and however their createSale and deleteSale interleave.
C3_StockNeverNegative == \A p \in Products : stock[p] >= 0

\* C4: when a createSale ends with success, the sale's total_amount is the sum
\* of unit_price * quantity over its sale_items, its total_cost the sum of
\* unit_cost * quantity, and the sale_items are the cart lines: one item per
\* line, with the line's product, quantity, price and cost.
C4_TotalsMatchItems ==
    [][\A c \in Clients :
        (op[c].kind = "create" /\ op'[c].kind = "idle" /\ last'.result = "success") =>
            LET s == op[c].saleId
                its == {it \in items' : it.sale_id = s}
            IN  \A sale \in sales' : sale.id = s =>
                    /\ sale.total_amount = ItemsAmount(its)
                    /\ sale.total_cost = ItemsCost(its)
                    /\ its = SaleItems(op[c], cart[c])
      ]_vars

\* products of the cart lines that ask for more than the product's stock
Offending(lines) ==
    {lines[i].id : i \in {j \in DOMAIN lines : lines[j].quantity > stock[lines[j].id]}}

\* C5: a submitted cart with a line whose quantity exceeds the product's stock
\* is turned down with the Insufficient Stock toast naming those products, and
\* the step writes no customer, sale or sale item and changes no stock.
C5_InsufficientStockRejected ==
    [][\A c \in Clients :
        (Submits(c) /\ Offending(cart[c]) # {}) =>
            /\ last'.result = "insufficient"
            /\ last'.names = Offending(cart[c])
            /\ op'[c].kind = "idle"
            /\ store' = store
      ]_vars

C7_DeleteRestoresStock ==
    [][\A c \in Clients :
        /\ (op[c].kind = "idle" /\ op'[c].kind = "delete") =>
               Len(op'[c].its) = Cardinality(ItemsOf(op'[c].target))
        /\ LeavesItem(c) =>
               LET it == op[c].its[op[c].i] IN
               stock'[it.product_id] - stock[it.product_id] = it.quantity
        /\ (op[c].kind = "delete" /\ op'[c].kind = "idle" /\ last'.result = "success") =>
               /\ \A sale \in sales' : sale.id # op[c].target
               /\ \A it \in items' : it.sale_id # op[c].target
      ]_vars

\* C8: every debtor references a sale that exists, and no unresolved debtor
\* references a sale that is paid.
C8_DebtorFollowsSale ==
    \A d \in debtors :
        \E sale \in sales :
            /\ sale.id = d.sale_id
            /\ ~d.is_resolved => sale.payment_status # "paid"

\* C9: a createSale turned down by a check made before the first write (empty
\* customer name, empty cart, not authenticated) inserts no customer, sale or
\* sale item and changes no stock; every cart line has quantity >= 1 and no
\* sale item has quantity <= 0.
C9_RejectedBeforeAnyWrite ==
    [][/\ \A c \in Clients :
            /\ Rejects(c) => store' = store
            /\ \A i \in DOMAIN cart'[c] : cart'[c][i].quantity >= 1
       /\ \A it \in items' : it.quantity >= 1
      ]_vars

\* a submit with an empty customer name has just been turned down, with lines in
\* the cart and sale items in the store
C9_Witness ==
    /\ last.kind = "create" /\ last.result = "validation"
    /\ cart[last.client] # <<>>
    /\ items # {}

\* C10: a store call that fails inside createSale, deleteSale or markPaid ends
\* the operation there, with the error toast; no operation goes on, or reports
\* success, after one of its store calls failed.
C10_ErrorsSurface ==
    [][used'.faults > used.faults =>
           /\ last'.result = "error"
           /\ op'[last'.client].kind = "idle"
      ]_vars

\* C11: createSale inserts a customer only when no customer of that exact name
\* exists, so no two customers ever have the same name.
C11_OneCustomerPerName ==
    [][/\ Len(customers') > Len(customers) =>
              \A k \in DOMAIN customers : customers[k] # customers'[Len(customers')]
       /\ \A i, j \in DOMAIN customers' : customers'[i] = customers'[j] => i = j
      ]_vars

\* ------------------------------------------------------------- reports
\* the sum of f over the keys in S
RECURSIVE SumOf(_, _)
SumOf(f, S) ==
    IF S = {} THEN 0
    ELSE LET x == CHOOSE y \in S : TRUE IN f[x] + SumOf(f, S \ {x})

\* the window of the mounted page and the sales whose date lies in it
Window ==
    IF page.name = "dashboard" THEN DashboardRange(page, clock) ELSE AnalysisRange(page, clock)
InWindow ==
    {i \in DOMAIN db.sales : /\ NotAfter(Window.start, db.sales[i].sale_date)
                             /\ NotAfter(db.sales[i].sale_date, Window.end)}
PaidInWindow == {i \in InWindow : db.sales[i].payment_status = "paid"}
Amounts == [i \in DOMAIN db.sales |-> Number(db.sales[i].total_amount)]
Costs == [i \in DOMAIN db.sales |-> Number(db.sales[i].total_cost)]
ShowsTotals == view.kind \in {"dashboardStats", "analytics"}

\* C12: the revenue, cost and profit a report shows are sums over the paid sales
\* of its window only; a pending sale adds nothing to them.
C12_RealizedOnlyPaid ==
    ShowsTotals =>
        /\ view.totalRevenue = SumOf(Amounts, PaidInWindow)
        /\ view.totalCost = SumOf(Costs, PaidInWindow)
        /\ view.totalProfit = SumOf(Amounts, PaidInWindow) - SumOf(Costs, PaidInWindow)

ShownDebtor(k) == db.debtors[view.rows[k].id]

\* C13: a debtor row shows as overdue exactly when its due date is before now; a
\* due date equal to now is not overdue and shows "Due today".
C13_OverdueWhenPastDue ==
    view.kind = "debtors" =>
        \A k \in DOMAIN view.rows :
            /\ view.rows[k].color = "red" <=> Before(ShownDebtor(k).due_date, clock)
            /\ view.rows[k].icon = "AlertTriangle" <=> Before(ShownDebtor(k).due_date, clock)
            /\ ShownDebtor(k).due_date = clock =>
                   view.rows[k].daysUntilDue = 0 /\ view.rows[k].label.text = "Due today"

\* C14: the days until due of a row are the difference due - now in days rounded
\* up; the row reads "Due today" exactly when they are 0; a debtor whose due date
\* is not before now is due soon exactly when they are at most 7, else on track.
C14_DaysRoundedUp ==
    view.kind = "debtors" =>
        \A k \in DOMAIN view.rows :
            LET row == view.rows[k]
                diff == DiffMs(ShownDebtor(k).due_date, clock)
            IN  /\ (row.daysUntilDue - 1) * MsPerDay < diff
                /\ diff <= row.daysUntilDue * MsPerDay
                /\ row.label.text = "Due today" <=> row.daysUntilDue = 0
                /\ ~Before(ShownDebtor(k).due_date, clock) =>
                       /\ row.color = "yellow" <=> row.daysUntilDue <= 7
                       /\ row.color = "green" <=> row.daysUntilDue > 7
                       /\ row.icon = "Clock" <=> row.daysUntilDue <= 7
                       /\ row.icon = "CheckCircle" <=> row.daysUntilDue > 7

\* a table with a debtor due now and a debtor due a millisecond from now
C14_Witness ==
    /\ view.kind = "debtors"
    /\ \E k \in DOMAIN view.rows :
          ShownDebtor(k).due_date = clock /\ view.rows[k].label.text = "Due today"
    /\ \E k \in DOMAIN view.rows :
          /\ ShownDebtor(k).due_date = Shift(clock, 0, 1)
          /\ view.rows[k].daysUntilDue = 1
          /\ view.rows[k].color = "yellow"

\* the debtors that are not resolved, and what each debtor owes
OpenDebtors == {i \in DOMAIN db.debtors : ~db.debtors[i].is_resolved}
Owed == [i \in DOMAIN db.debtors |-> Number(db.debtors[i].amount_owed)]

\* C15: over the whole debtors table, totalOutstanding is the sum owed by the
\* unresolved debtors, totalResolved the sum owed by the resolved ones,
\* overdueDebtors the number of unresolved debtors due before now, and
\* activeDebtors the number of unresolved debtors.
C15_DebtorStats ==
    view.kind = "debtorStats" =>
        /\ view.totalOutstanding = SumOf(Owed, OpenDebtors)
        /\ view.totalResolved = SumOf(Owed, DOMAIN db.debtors \ OpenDebtors)
        /\ view.overdueDebtors =
               Cardinality({i \in OpenDebtors : Before(db.debtors[i].due_date, clock)})
        /\ view.activeDebtors = Cardinality(OpenDebtors)

\* stats over an unresolved debtor due now and an unresolved debtor due a
\* millisecond ago
C15_Witness ==
    /\ view.kind = "debtorStats"
    /\ \E i \in OpenDebtors : db.debtors[i].due_date = clock
    /\ \E i \in OpenDebtors : db.debtors[i].due_date = Shift(clock, 0, -1)
    /\ view.overdueDebtors = 1
    /\ view.activeDebtors = 2
    /\ view.totalOutstanding > 0

\* the sale items whose sale lies in the window, with what each sold
WindowItems ==
    {k \in DOMAIN db.items : \E i \in InWindow : db.sales[i].id = db.items[k].sale_id}
Quantities == [k \in DOMAIN db.items |-> Number(db.items[k].quantity)]
Revenues ==
    [k \in DOMAIN db.items |-> Number(db.items[k].quantity) * Number(db.items[k].unit_price)]
ItemCostsOf ==
    [k \in DOMAIN db.items |-> Number(db.items[k].quantity) * Number(db.items[k].unit_cost)]
Categories ==
    [k \in DOMAIN db.items |->
        IF db.items[k].category = "null" THEN "Uncategorized" ELSE db.items[k].category]
ProductsByName ==
    [k \in DOMAIN db.items |->
        IF db.items[k].name = "null" THEN "Unknown" ELSE db.items[k].name]

\* byProduct, the grouping the top products are taken from
ByProduct == ProductMap(ItemsBetween(db.items, Window.start, Window.end))

\* groups is the partition of the window's items by key, with the sums of each part
Partitions(groups, key) ==
    /\ \A i, j \in DOMAIN groups : groups[i].name = groups[j].name => i = j
    /\ {groups[i].name : i \in DOMAIN groups} = {key[k] : k \in WindowItems}
    /\ \A i \in DOMAIN groups :
          LET part == {k \in WindowItems : key[k] = groups[i].name}
          IN  /\ groups[i].quantity = SumOf(Quantities, part)
              /\ groups[i].revenue = SumOf(Revenues, part)
              /\ groups[i].cost = SumOf(ItemCostsOf, part)
              /\ groups[i].profit = groups[i].revenue - groups[i].cost
    /\ SumOf([i \in DOMAIN groups |-> groups[i].quantity], DOMAIN groups)
           = SumOf(Quantities, WindowItems)
    /\ SumOf([i \in DOMAIN groups |-> groups[i].revenue], DOMAIN groups)
           = SumOf(Revenues, WindowItems)
    /\ SumOf([i \in DOMAIN groups |-> groups[i].cost], DOMAIN groups)
           = SumOf(ItemCostsOf, WindowItems)

OnDay(k) == {i \in DOMAIN db.sales : db.sales[i].sale_date.day = Window.start.day + k - 1}
DaysOfWindow == Window.end.day - Window.start.day + 1

\* the entries of the trend shown: revenue and cost of each
TrendShown ==
    IF view.kind = "analytics"
    THEN [k \in DOMAIN view.timeTrend |->
             [revenue |-> view.timeTrend[k].revenue, cost |-> view.timeTrend[k].cost,
              profit |-> view.timeTrend[k].profit]]
    ELSE [k \in DOMAIN view.days |->
             [revenue |-> view.days[k].sales, cost |-> view.days[k].expenses,
              profit |-> view.days[k].profit]]

\* C19: the trend has one entry for each day of the window, oldest first, with the
\* revenue, cost and profit of exactly the sales of that day; for a yearly window
\* its entries are buckets that together hold the sales of the window.
C19_TrendCoversWindow ==
    view.kind \in {"analytics", "chartData"} =>
        IF page.dateRange = "yearly"
        THEN /\ SumOf([k \in DOMAIN TrendShown |-> TrendShown[k].revenue], DOMAIN TrendShown)
                    = SumOf(Amounts, InWindow)
             /\ SumOf([k \in DOMAIN TrendShown |-> TrendShown[k].cost], DOMAIN TrendShown)
                    = SumOf(Costs, InWindow)
        ELSE /\ Len(TrendShown) = DaysOfWindow
             /\ \A k \in DOMAIN TrendShown :
                   /\ TrendShown[k].revenue = SumOf(Amounts, OnDay(k))
                   /\ TrendShown[k].cost = SumOf(Costs, OnDay(k))
                   /\ TrendShown[k].profit = TrendShown[k].revenue - TrendShown[k].cost

\* the sum of the column col of the rows S of table, over the rows that have it
SumPresent(table, col, S) ==
    SumOf([i \in DOMAIN table |-> table[i][col]], {i \in S : table[i][col] # Null})

\* every entry of the trend shown is zero
TrendIsZero ==
    \A k \in DOMAIN TrendShown :
        TrendShown[k].revenue = 0 /\ TrendShown[k].cost = 0 /\ TrendShown[k].profit = 0

\* the result shown is the one of a store without sales and debtors
ZeroResult ==
    CASE view.kind \in {"debtorStats", "pageStats"} ->
            /\ view.totalOutstanding = 0 /\ view.overdueDebtors = 0
            /\ view.totalResolved = 0 /\ view.activeDebtors = 0
      [] view.kind = "debtors" -> view.rows = <<>>
      [] view.kind = "dashboardStats" ->
            /\ view.totalRevenue = 0 /\ view.totalCost = 0 /\ view.totalProfit = 0
            /\ view.productsSold = 0 /\ view.debtorsCount = 0 /\ view.salesCount = 0
            /\ view.salesData = <<>>
      [] view.kind = "chartData" -> TrendIsZero
      [] view.kind = "analytics" ->
            /\ view.totalRevenue = 0 /\ view.totalCost = 0 /\ view.totalProfit = 0
            /\ view.categoryData = <<>> /\ view.topProducts = <<>>
            /\ TrendIsZero
            /\ view.salesCount = 0 /\ view.avgOrderValue.num = 0
            /\ view.totalQuantitySold = 0
      [] OTHER -> TRUE

\* a null column adds nothing to the sums shown
NullAddsZero ==
    CASE view.kind = "debtorStats" ->
            /\ view.totalOutstanding = SumPresent(db.debtors, "amount_owed", OpenDebtors)
            /\ view.totalResolved =
                   SumPresent(db.debtors, "amount_owed", DOMAIN db.debtors \ OpenDebtors)
      [] view.kind = "dashboardStats" ->
            /\ view.totalRevenue = SumPresent(db.sales, "total_amount", InWindow)
            /\ view.totalCost = SumPresent(db.sales, "total_cost", InWindow)
            /\ view.totalInventoryValue =
                   SumOf([i \in DOMAIN db.products |->
                             db.products[i].cost * db.products[i].stock_quantity],
                         {i \in DOMAIN db.products :
                             db.products[i].is_active /\ db.products[i].cost # Null})
      [] view.kind = "analytics" ->
            /\ view.totalRevenue = SumPresent(db.sales, "total_amount", InWindow)
            /\ view.totalCost = SumPresent(db.sales, "total_cost", InWindow)
            /\ SumOf([i \in DOMAIN view.categoryData |-> view.categoryData[i].revenue],
                     DOMAIN view.categoryData)
                   = SumOf(Revenues, {k \in WindowItems : db.items[k].unit_price # Null})
      [] OTHER -> TRUE

\* C20: over a store without sales and without debtors every aggregation answers
\* a result, with zero in every numeric field and empty groupings; a null numeric
\* column adds zero to every sum.
C20_EmptyAndNull ==
    /\ (db.sales = <<>> /\ db.debtors = <<>>) => ZeroResult
    /\ NullAddsZero

\* the dashboard of a store without sales and debtors and with a product whose
\* cost is null
C20_Witness ==
    /\ db.sales = <<>>
    /\ db.debtors = <<>>
    /\ view.kind = "dashboardStats"
    /\ view.totalRevenue = 0
    /\ \E i \in DOMAIN db.products : db.products[i].is_active /\ db.products[i].cost = Null
    /\ view.totalInventoryValue > 0

\* the results of the aggregations over rows the store answered: the debtor
\* statistics of the library, dashboard statistics, chart and analysis
Aggregates == {"debtorStats", "dashboardStats", "chartData", "analytics"}

\* C21: an aggregation run again over the same rows, on the same page with the
\* same range, returns what it returned before.
C21_SameSnapshotSameResult ==
    [][(/\ db' = db
        /\ page' = page
        /\ view.kind \in Aggregates
        /\ view'.kind = view.kind) => view' = view]_vars

\* ------------------------------------------------------------- races
\* the step taken is a stock write of the createSale of client c
WritesStock(c) ==
    /\ op[c].kind = "create" /\ op[c].pc = "updateStock"
    /\ op'[c] # op[c]
    /\ last'.result # "error"

\* the quantity of product p in the sale items of the store
RECURSIVE Sold(_, _)
Sold(its, p) ==
    IF its = {} THEN 0
    ELSE LET it == CHOOSE x \in its : TRUE
         IN  (IF it.product_id = p THEN it.quantity ELSE 0) + Sold(its \ {it}, p)

\* C22: the stock check of a submit and the stock write of createSale both use
\* the stock_quantity the client read into its cart, not the stock of the store:
\* a sale is started exactly when no line asks for more than the stock read, and
\* the write stores the stock read minus the quantity; so two clients that read
\* the same stock both pass the check and both commit.
C22_CheckAndWriteUseStockRead ==
    [][\A c \in Clients :
        /\ (op[c].kind = "idle" /\ op'[c].kind = "create") =>
               \A i \in DOMAIN cart[c] : cart[c][i].quantity <= cart[c][i].stock_quantity
        /\ (Submits(c) /\ op'[c].kind = "idle") =>
               \E i \in DOMAIN cart[c] : cart[c][i].quantity > cart[c][i].stock_quantity
        /\ WritesStock(c) =>
               LET line == cart[c][op[c].i]
               IN  stock'[line.id] = line.stock_quantity - line.quantity
      ]_vars

\* the sale of client 2 has committed while the sale of client 1, past its check
\* and with its rows inserted, is about to write the stock; together they sold
\* more of product A than there was
C22_Witness ==
    /\ op[1].kind = "create" /\ op[1].pc = "updateStock"
    /\ last.client = 2 /\ last.kind = "create" /\ last.result = "success"
    /\ Cardinality(sales) = 2
    /\ Sold(items, "A") > InitStock
    /\ Sold(ItemsOf(op[1].saleId), "A") > 0
    /\ Sold(ItemsOf(last.target), "A") > 0

\* ------------------------------------------------------------- failures
\* the step taken is a store call of the createSale of client c
CreateStep(c) == op[c].kind = "create" /\ op'[c] # op[c]

\* C23: createSale writes in the order customer, sale, sale items, stock; a store
\* call of it that fails ends it there: the failing step and every later step
\* write nothing, and what the earlier steps wrote stays.
C23_FailureStopsLaterWrites ==
    [][\A c \in Clients : CreateStep(c) =>
        /\ customers' # customers => op[c].pc = "insertCustomer"
        /\ sales' # sales =>
               /\ op[c].pc = "insertSale"
               /\ op[c].customerId \in DOMAIN customers
               /\ customers[op[c].customerId] = op[c].name
        /\ items' # items =>
               /\ op[c].pc = "insertItems"
               /\ \A it \in items' \ items : it.sale_id = op[c].saleId
        /\ stock' # stock => op[c].pc = "updateStock"
        /\ used'.faults > used.faults =>
               /\ op'[c].kind = "idle"
               /\ last'.result = "error"
               /\ store' = store
      ]_vars

\* ------------------------------------------------------------- frames
\* the step taken is a store call of the markPaid of client c
MarkPaidStep(c) ==
    \/ op[c].kind = "markPaid" /\ op'[c] # op[c]
    \/ op[c].kind = "idle" /\ op'[c].kind = "markPaid"
    \/ op'[c] = op[c] /\ last'.client = c /\ last'.kind = "markPaid" /\ used' # used

\* row is old, or old with a different value in column col
SameBut(row, old, col) == row = [old EXCEPT ![col] = row[col]]

\* C24: a sale item is never changed once inserted, a sale changes in its payment
\* status only; a markPaid step changes nothing but is_resolved of its debtor
\* and payment_status of the sale that debtor references.
C24_WriteOnceButStatus ==
    [][/\ \A it \in items' \ items :
              \E c \in Clients : op[c].kind = "create" /\ op[c].pc = "insertItems"
                                 /\ it.sale_id = op[c].saleId
       /\ \A it \in items \ items' : \A sale \in sales' : sale.id # it.sale_id
       /\ \A old \in sales : \A sale \in sales' :
              sale.id = old.id => SameBut(sale, old, "payment_status")
       /\ \A old \in debtors : \A d \in debtors' :
              d.id = old.id => SameBut(d, old, "is_resolved")
       /\ \A c \in Clients : MarkPaidStep(c) =>
              /\ stock' = stock /\ items' = items /\ customers' = customers
              /\ \A old \in debtors : \E d \in debtors' :
                     /\ SameBut(d, old, "is_resolved")
                     /\ d # old => d.id \in {op[c].target, op'[c].target}
              /\ Cardinality(debtors') = Cardinality(debtors)
              /\ \A old \in sales : \E sale \in sales' :
                     /\ SameBut(sale, old, "payment_status")
                     /\ sale # old => \E d \in debtors : d.id = op[c].target
                                                         /\ d.sale_id = sale.id
              /\ Cardinality(sales') = Cardinality(sales)
      ]_vars

\* markPaid of debtor 1 has ended with success: its sale is paid, and the second
\* pending sale and its debtor are as they were
C24_Witness ==
    /\ last.kind = "markPaid" /\ last.result = "success" /\ last.target = 1
    /\ \E d \in debtors : d.id = 1 /\ d.is_resolved
    /\ \E sale \in sales : sale.id = 1 /\ sale.payment_status = "paid" /\ sale.due_date = "T1"
    /\ \E d \in debtors : d.id = 2 /\ ~d.is_resolved
    /\ \E sale \in sales : sale.id = 2 /\ sale.payment_status = "pending"

\* no mutation is in flight
Quiet == \A c \in Clients : op[c].kind = "idle"

\* C25: whenever no operation is in flight, for each product the stock plus the
\* quantities of the product in the sale items of the store is the initial stock.
C25_StockConserved ==
    Quiet => \A p \in Products : stock[p] + Sold(items, p) = InitStock

\* the step taken is a restore write of the deleteSale of client c: the store
\* answers it, the stock it read for the line is still the stock of the
\* product, no createSale is running, and one sale at most was ever submitted
\* with every store call answered
Restores(c) ==
    /\ op[c].kind = "delete" /\ op[c].pc = "delWrite"
    /\ op'[c] # op[c]
    /\ op[c].read = stock[op[c].its[op[c].i].product_id]
    /\ \A other \in Clients : op[other].kind # "create"
    /\ used.sales <= 1 /\ used'.faults = 0

\* C26: when deleteSale runs twice for the same sale, the quantity of a line is
\* added to the stock once, not twice: a restore write of the only sale never
\* lifts the stock of the product above the stock it had before the sale.
C26_RestoredOnce ==
    [][\A c \in Clients : Restores(c) =>
           \A p \in Products : stock'[p] <= InitStock]_vars

\* the debtor a store call of the markPaid of client c is about
MarkedDebtor(c) == IF op[c].kind = "markPaid" THEN op[c].target ELSE op'[c].target

\* debtor d is resolved and the sale it references, if it is there, is paid
Settled(d, ds, ss) ==
    \A debtor \in ds : debtor.id = d =>
        /\ debtor.is_resolved
        /\ \A sale \in ss : sale.id = debtor.sale_id => sale.payment_status = "paid"

\* C27: markPaid is idempotent and resolution is monotone: no step turns a
\* resolved debtor unresolved or a paid sale pending; a store call of markPaid
\* on a debtor that is resolved with its sale paid changes nothing in the
\* store, whichever other markPaid calls are in flight; and a markPaid that
\* ends with success on answered calls leaves the debtor resolved and its
\* sale paid.
C27_MarkPaidIdempotent ==
    [][/\ \A old \in debtors : \A d \in debtors' :
              (d.id = old.id /\ old.is_resolved) => d.is_resolved
       /\ \A old \in sales : \A sale \in sales' :
              (sale.id = old.id /\ old.payment_status = "paid") => sale.payment_status = "paid"
       /\ \A c \in Clients : MarkPaidStep(c) =>
              /\ Settled(MarkedDebtor(c), debtors, sales) => store' = store
              /\ (/\ op'[c].kind = "idle" /\ last'.result = "success"
                  /\ used'.faults = used.faults) =>
                     Settled(MarkedDebtor(c), debtors', sales')
      ]_vars

\* a second markPaid of debtor 1 is about to update the sale while the first
\* has ended with success and the debtor is resolved with its sale paid
C27_Witness ==
    /\ op[1].kind = "markPaid" /\ op[1].target = 1 /\ op[1].pc = "mpSale"
    /\ last.client = 2 /\ last.kind = "markPaid" /\ last.result = "success" /\ last.target = 1
    /\ \E d \in debtors : d.id = 1
    /\ Settled(1, debtors, sales)
    /\ \E sale \in sales : sale.id = 1

\* what the debtors of a table owe together
Debt(rows) == SumOf([i \in DOMAIN rows |-> Number(rows[i].amount_owed)], DOMAIN rows)

\* v is the statistics of the Debtors page over the table rows at time now
StatsOf(v, rows, now) == v = PageStats(rows, now)

ShownOverdue ==
    {k \in DOMAIN view.rows :
        view.rows[k].color = "red" /\ view.rows[k].label.text = "days overdue"}

\* C29: the overdue count and the rows agree: an unresolved debtor is counted
\* in overdueDebtors exactly when its row is displayed as overdue, so the
\* "Overdue Accounts" card, computed at the time the table is rendered, is the
\* number of rows displayed as overdue.
C29_OverdueCardMatchesRows ==
    view.kind = "debtors" =>
        /\ \A k \in DOMAIN view.rows :
               k \in ShownOverdue <=> IsAfter(clock, ShownDebtor(k).due_date)
        /\ PageStats(db.debtors, clock).overdueDebtors = Cardinality(ShownOverdue)
        /\ LibStats(db.debtors, clock).overdueDebtors = Cardinality(ShownOverdue)

\* the four figures of two results of the debtor statistics are the same
SameFigures(a, b) ==
    /\ a.totalOutstanding = b.totalOutstanding
    /\ a.overdueDebtors = b.overdueDebtors
    /\ a.totalResolved = b.totalResolved
    /\ a.activeDebtors = b.activeDebtors

\* C30: the two debtor-statistics reducers are equivalent: what the query of
\* the Debtors page returns for a table is what fetchDebtorStats returns for
\* it, which returns figures only when the read is answered and then those of
\* the table; and the dashboard's count of unresolved debtors is activeDebtors.
C30_ReducersEquivalent ==
    /\ view.kind = "pageStats" => SameFigures(view, LibStats(db.debtors, clock))
    /\ view.kind = "debtorStats" => SameFigures(view, PageStats(db.debtors, clock))
    /\ view.kind = "dashboardStats" =>
           view.debtorsCount = LibStats(db.debtors, clock).activeDebtors

====
